---- MODULE Spec2Model ----
(***************************************************************************)
(* Model of src/main.py: the transition-table loader processInput and the  *)
(* multi-strategy search generate (breadth_first, depth_first, heuristic). *)
(*                                                                         *)
(* Strings are sequences of one-character strings, so that split, lower    *)
(* and string comparison are computed character by character.              *)
(* Probabilities are binary fractions held as integers: a transition       *)
(* probability p is the integer 2*p (0.0, 0.5, 1.0 are 0, 1, 2) and a      *)
(* cumulative probability x is the integer x * One.  Every product the     *)
(* search forms is exact in this representation, as it is in IEEE doubles. *)
(***************************************************************************)
EXTENDS Integers, Sequences, FiniteSets, TLC

VARIABLES startingWord, sentenceSpec, graph, argv, strategyArg, strategy,
          loaded, nexts, bestSentence, totalNodes, nodes, pc, outputs,
          removed

vars == <<startingWord, sentenceSpec, graph, argv, strategyArg, strategy,
          loaded, nexts, bestSentence, totalNodes, nodes, pc, outputs,
          removed>>

----------------------------------------------------------------------------
(* Bounds *)

\* longest target category sequence
MaxLen == 3

\* most lines in a well-formed input text
MaxLines == 3

----------------------------------------------------------------------------
(* Characters and strings *)

\* the characters of the model in ASCII order
Ascii == <<"\n", " ", ".", "/", "0", "1", "5",
           "A", "B", "C", "D", "E", "F", "H", "I", "P", "R", "S", "T", "U",
           "X", "Y", "_",
           "a", "b", "c", "d", "e", "f", "g", "h", "i", "o", "p", "r", "s",
           "t", "u", "x", "y">>

Ord(ch) == CHOOSE i \in 1..Len(Ascii) : Ascii[i] = ch

UpperCase == <<"A", "B", "C", "D", "E", "F", "H", "I", "P", "R", "S", "T", "U",
               "X", "Y">>
LowerCase == <<"a", "b", "c", "d", "e", "f", "h", "i", "p", "r", "s", "t", "u",
               "x", "y">>

\* lower leaves every character as it is
LowerChar_Identity(ch) == ch

\* str.lower on one character
LowerChar(ch) ==
    IF \E i \in 1..Len(UpperCase) : UpperCase[i] = ch
    THEN LowerCase[CHOOSE i \in 1..Len(UpperCase) : UpperCase[i] = ch]
    ELSE ch

\* str.lower
Lower(s) == [i \in 1..Len(s) |-> LowerChar(s[i])]

\* str < str: lexicographic on character codes, a proper prefix is smaller
RECURSIVE StrLess(_, _)
StrLess(s, t) ==
    IF t = <<>> THEN FALSE
    ELSE IF s = <<>> THEN TRUE
    ELSE IF Head(s) # Head(t) THEN Ord(Head(s)) < Ord(Head(t))
    ELSE StrLess(Tail(s), Tail(t))

\* str.split(sep) for a one-character separator
RECURSIVE Split(_, _)
Split(s, sep) ==
    IF \A i \in 1..Len(s) : s[i] # sep THEN <<s>>
    ELSE LET i == CHOOSE k \in 1..Len(s) :
                     s[k] = sep /\ \A j \in 1..(k-1) : s[j] # sep
         IN  <<SubSeq(s, 1, i-1)>> \o Split(SubSeq(s, i+1, Len(s)), sep)

----------------------------------------------------------------------------
(* Numbers *)

\* the decimal texts float() is applied to, with their values in halves
FloatLiterals == { <<<<"0", ".", "0">>, 0>>,
                   <<<<"0", ".", "5">>, 1>>,
                   <<<<"1", ".", "0">>, 2>> }

IsFloat(s) == \E l \in FloatLiterals : l[1] = s

\* float(s), defined when IsFloat(s)
Float(s) == (CHOOSE l \in FloatLiterals : l[1] = s)[2]

\* the cumulative probability 1.0
One == 2 ^ (MaxLen - 1)

\* x * p for a cumulative probability x and a probability p in halves
Mul(x, p) == (x * p) \div 2

\* the guess is the average transition probability
HEURISTIC_BEST_GUESS_Average == Float(<<"0", ".", "5">>)

\* line 17
HEURISTIC_BEST_GUESS == Float(<<"1", ".", "0">>)

\* base ** n, in halves
RECURSIVE Pow(_, _)
Pow(base, n) == IF n = 0 THEN 2 ELSE (base * Pow(base, n - 1)) \div 2

----------------------------------------------------------------------------
(* processInput *)

NextInfo(word, percent) == [word |-> word, percent |-> percent]

\* the key is assigned the default whether it is present or not
SetDefault_Overwrite(d, key, default) ==
    [k \in DOMAIN d \cup {key} |-> IF k = key THEN default ELSE d[k]]

\* dict.setdefault(key, default)
SetDefault(d, key, default) ==
    IF key \in DOMAIN d THEN d
    ELSE [k \in DOMAIN d \cup {key} |-> IF k = key THEN default ELSE d[k]]

\* does the body of the loop raise on this non-empty line?
\* parts[6] (and parts[1], parts[3], parts[4]) raise IndexError on a short
\* line, float raises ValueError on non-numeric text
LineRaises(line) ==
    LET parts == Split(line, "/")
    IN  IF Len(parts) < 7 THEN TRUE ELSE ~IsFloat(parts[7])

\* the keys are created and a pair of probability 0.0 is not appended
AddLine_SkipZero(tbl, line) ==
    LET parts   == Split(line, "/")
        w1word  == parts[1]
        w1type  == parts[2]
        w2word  == parts[4]
        w2type  == parts[5]
        percent == Float(parts[7])
        t1 == SetDefault(tbl, w1word, <<>>)
        t2 == [t1 EXCEPT ![w1word] = SetDefault(@, w1type, <<>>)]
        t3 == [t2 EXCEPT ![w1word][w1type] = SetDefault(@, w2type, <<>>)]
    IN  IF percent = 0 THEN t3
        ELSE [t3 EXCEPT ![w1word][w1type][w2type] =
                            Append(@, NextInfo(w2word, percent))]

\* one iteration of the loop body on a non-empty line that does not raise
AddLine(tbl, line) ==
    LET parts   == Split(line, "/")
        w1word  == parts[1]
        w1type  == parts[2]
        w2word  == parts[4]
        w2type  == parts[5]
        percent == Float(parts[7])
        t1 == SetDefault(tbl, w1word, <<>>)
        t2 == [t1 EXCEPT ![w1word] = SetDefault(@, w1type, <<>>)]
        t3 == [t2 EXCEPT ![w1word][w1type] = SetDefault(@, w2type, <<>>)]
    IN  [t3 EXCEPT ![w1word][w1type][w2type] =
                        Append(@, NextInfo(w2word, percent))]

\* the loop of lines 37-47 with a guard that passes over a line it cannot
\* read instead of raising
RECURSIVE LoadLines_SkipBad(_, _)
LoadLines_SkipBad(tbl, lines) ==
    IF lines = <<>> THEN [raised |-> FALSE, nexts |-> tbl]
    ELSE IF Head(lines) = <<>> \/ LineRaises(Head(lines))
         THEN LoadLines_SkipBad(tbl, Tail(lines))
         ELSE LoadLines_SkipBad(AddLine(tbl, Head(lines)), Tail(lines))

\* the loop of lines 37-47 from the table built so far: whether a line
\* raised, and the table returned otherwise
RECURSIVE LoadLines(_, _)
LoadLines(tbl, lines) ==
    IF lines = <<>> THEN [raised |-> FALSE, nexts |-> tbl]
    ELSE IF Head(lines) = <<>> THEN LoadLines(tbl, Tail(lines))
    ELSE IF LineRaises(Head(lines)) THEN [raised |-> TRUE, nexts |-> <<>>]
    ELSE LoadLines(AddLine(tbl, Head(lines)), Tail(lines))

\* processInput(text)
ProcessInput(text) == LoadLines(<<>>, Split(text, "\n"))

----------------------------------------------------------------------------
(* generate: nodes *)

Sentence(string, percent, length) ==
    [string |-> string, percent |-> percent, length |-> length]

Node(weighting, word, depth, sentence) ==
    [weighting |-> weighting, word |-> word, depth |-> depth,
     sentence |-> sentence]

\* bestSentence = None
None == Sentence(<<>>, -1, 0)

\* tuple comparison of Sentence records
SentenceLess(s, t) ==
    IF s.string # t.string THEN StrLess(s.string, t.string)
    ELSE IF s.percent # t.percent THEN s.percent < t.percent
    ELSE s.length < t.length

\* tuple comparison of Node records, the order of the heap
NodeLess(n, m) ==
    IF n.weighting # m.weighting THEN n.weighting < m.weighting
    ELSE IF n.word # m.word THEN StrLess(n.word, m.word)
    ELSE IF n.depth # m.depth THEN n.depth < m.depth
    ELSE SentenceLess(n.sentence, m.sentence)

\* the node is put at the front of the list, the heap order is not kept
HeapPush_Front(heap, n) == <<n>> \o heap

\* heappush: the frontier of the heuristic strategy is held in ascending
\* order, which is a valid heap; heappop then removes its head
HeapPush(heap, n) ==
    LET k == Cardinality({i \in 1..Len(heap) : ~NodeLess(n, heap[i])})
    IN  SubSeq(heap, 1, k) \o <<n>> \o SubSeq(heap, k + 1, Len(heap))

RECURSIVE HeapPushAll(_, _)
HeapPushAll(heap, ns) ==
    IF ns = <<>> THEN heap
    ELSE HeapPushAll(HeapPush(heap, Head(ns)), Tail(ns))

heuristic_value(spec, base, node) == Pow(base, Len(spec) - (node.depth + 1))

\* the function returns inside the loop, after the first transition
GenerateNextNodes_FirstOnly(tbl, spec, node) ==
    LET c1 == spec[node.depth]
        c2 == spec[node.depth + 1]
    IN  IF /\ node.word \in DOMAIN tbl
           /\ c1 \in DOMAIN tbl[node.word]
           /\ c2 \in DOMAIN tbl[node.word][c1]
        THEN LET next == tbl[node.word][c1][c2][1]
             IN  <<Node(Mul(Mul(-node.sentence.percent, next.percent),
                            heuristic_value(spec, HEURISTIC_BEST_GUESS, node)),
                        next.word,
                        node.depth + 1,
                        Sentence(node.sentence.string \o <<" ">> \o next.word,
                                 Mul(node.sentence.percent, next.percent),
                                 node.sentence.length + 1))>>
        ELSE <<>>

\* the sentence of a child takes the probability of its transition alone
GenerateNextNodes_OwnPercent(tbl, spec, node) ==
    LET c1 == spec[node.depth]
        c2 == spec[node.depth + 1]
    IN  IF /\ node.word \in DOMAIN tbl
           /\ c1 \in DOMAIN tbl[node.word]
           /\ c2 \in DOMAIN tbl[node.word][c1]
        THEN LET list == tbl[node.word][c1][c2]
             IN  [i \in 1..Len(list) |->
                    Node(Mul(Mul(-node.sentence.percent, list[i].percent),
                             heuristic_value(spec, HEURISTIC_BEST_GUESS, node)),
                         list[i].word,
                         node.depth + 1,
                         Sentence(node.sentence.string \o <<" ">> \o list[i].word,
                                  Mul(One, list[i].percent),
                                  node.sentence.length + 1))]
        ELSE <<>>

\* generateNextNodes(node): the children of node, empty on KeyError
GenerateNextNodes(tbl, spec, node) ==
    LET c1 == spec[node.depth]
        c2 == spec[node.depth + 1]
    IN  IF /\ node.word \in DOMAIN tbl
           /\ c1 \in DOMAIN tbl[node.word]
           /\ c2 \in DOMAIN tbl[node.word][c1]
        THEN LET list == tbl[node.word][c1][c2]
             IN  [i \in 1..Len(list) |->
                    Node(Mul(Mul(-node.sentence.percent, list[i].percent),
                             heuristic_value(spec, HEURISTIC_BEST_GUESS, node)),
                         list[i].word,
                         node.depth + 1,
                         Sentence(node.sentence.string \o <<" ">> \o list[i].word,
                                  Mul(node.sentence.percent, list[i].percent),
                                  node.sentence.length + 1))]
        ELSE <<>>

\* line 74 raises KeyError: the word, the source category or the target
\* category is not a key of its level
KeyError(tbl, spec, node) ==
    IF node.word \in DOMAIN tbl
    THEN IF spec[node.depth] \in DOMAIN tbl[node.word]
         THEN spec[node.depth + 1]
                  \notin DOMAIN tbl[node.word][spec[node.depth]]
         ELSE TRUE
    ELSE TRUE

----------------------------------------------------------------------------
(* generate: the search loop *)

breadth_first == <<"b", "r", "e", "a", "d", "t", "h", "_", "f", "i", "r", "s", "t">>
depth_first   == <<"d", "e", "p", "t", "h", "_", "f", "i", "r", "s", "t">>
heuristic     == <<"h", "e", "u", "r", "i", "s", "t", "i", "c">>

ValidStrategies == {breadth_first, depth_first, heuristic}

\* the node is read and left in the list
Pop_Keep(ns, strat) ==
    IF strat = depth_first THEN [node |-> ns[Len(ns)], rest |-> ns]
    ELSE [node |-> ns[1], rest |-> ns]

\* every strategy removes from the back of the list
Pop_Back(ns, strat) ==
    [node |-> ns[Len(ns)], rest |-> SubSeq(ns, 1, Len(ns) - 1)]

\* the two ends of the list are taken the wrong way round
Pop_Swapped(ns, strat) ==
    IF strat = breadth_first
    THEN [node |-> ns[Len(ns)], rest |-> SubSeq(ns, 1, Len(ns) - 1)]
    ELSE [node |-> ns[1], rest |-> Tail(ns)]

\* heuristic removes the last node of the heap, the largest
Pop_HeapBack(ns, strat) ==
    IF strat = breadth_first
    THEN [node |-> ns[1], rest |-> Tail(ns)]
    ELSE [node |-> ns[Len(ns)], rest |-> SubSeq(ns, 1, Len(ns) - 1)]

\* lines 92-98: the node the loop removes and the frontier it leaves
Pop(ns, strat) ==
    IF strat = breadth_first
    THEN [node |-> ns[1], rest |-> Tail(ns)]
    ELSE IF strat = depth_first
    THEN [node |-> ns[Len(ns)], rest |-> SubSeq(ns, 1, Len(ns) - 1)]
    ELSE [node |-> Head(ns), rest |-> Tail(ns)]

\* the comparison of line 101 the wrong way round
IsPruned_Inverted(best, node) ==
    best # None /\ node.sentence.percent > best.percent

\* line 101: a better solution exists already
IsPruned(best, node) ==
    best # None /\ node.sentence.percent < best.percent

\* line 114 without its test for None
IsAccepted_NoFirst(best, node) ==
    best # None /\ node.sentence.percent > best.percent

\* line 114 with >= for >
IsAccepted_GreaterEq(best, node) ==
    best = None \/ node.sentence.percent >= best.percent

\* the comparison of line 114 the wrong way round
IsAccepted_Less(best, node) ==
    best = None \/ node.sentence.percent < best.percent

\* line 114: the complete node becomes the best
IsAccepted(best, node) ==
    best = None \/ node.sentence.percent > best.percent

\* every strategy extends the list, the heap order is not kept
Insert_Extend(ns, strat, children) == ns \o children

\* lines 109-113: the children join the frontier
Insert(ns, strat, children) ==
    IF strat = heuristic THEN HeapPushAll(ns, children) ELSE ns \o children

\* no run removes more nodes than the largest search tree of the bounds
\* holds; the loop steps are capped there
RECURSIVE TreeCap(_)
TreeCap(d) == IF d = 0 THEN 0 ELSE 1 + MaxLines * TreeCap(d - 1)

MaxTotalNodes == TreeCap(MaxLen)

Output(kind, strat, sentence, count) ==
    [kind |-> kind, strategy |-> strat, string |-> sentence.string,
     percent |-> sentence.percent, totalNodes |-> count]

\* history: a node the loop removed and what became of it
Removed(node, outcome) == [node |-> node, outcome |-> outcome]

\* lines 54-56: the strategy is not a valid one
GenerateInvalid ==
    /\ pc = "call"
    /\ Lower(strategyArg) \notin ValidStrategies
    /\ strategy' = Lower(strategyArg)
    /\ outputs' = Append(outputs, Output("invalid strategy", strategy', None, 0))
    /\ pc' = "returned"
    /\ UNCHANGED <<startingWord, sentenceSpec, graph, argv, strategyArg,
                   loaded, nexts, bestSentence, totalNodes, nodes>>
    /\ UNCHANGED removed

\* lines 54-58: processInput raises
GenerateRaise ==
    /\ pc = "call"
    /\ Lower(strategyArg) \in ValidStrategies
    /\ ProcessInput(graph).raised
    /\ strategy' = Lower(strategyArg)
    /\ outputs' = Append(outputs, Output("raised", strategy', None, 0))
    /\ pc' = "raised"
    /\ UNCHANGED <<startingWord, sentenceSpec, graph, argv, strategyArg,
                   loaded, nexts, bestSentence, totalNodes, nodes>>
    /\ UNCHANGED removed

\* lines 54-65: the table is loaded and the frontier seeded
GenerateStart ==
    /\ pc = "call"
    /\ Lower(strategyArg) \in ValidStrategies
    /\ ~ProcessInput(graph).raised
    /\ strategy' = Lower(strategyArg)
    /\ nexts' = ProcessInput(graph).nexts
    /\ loaded' = TRUE
    /\ bestSentence' = None
    /\ totalNodes' = 0
    /\ nodes' = <<Node(0, startingWord, 1, Sentence(startingWord, One, 1))>>
    /\ pc' = "loop"
    /\ UNCHANGED <<startingWord, sentenceSpec, graph, argv, strategyArg, outputs>>
    /\ removed' = <<>>

\* the node that stops the search is not counted
PruneBreak_NoCount ==
    /\ pc = "loop" /\ nodes # <<>> /\ totalNodes < MaxTotalNodes
    /\ IsPruned(bestSentence, Pop(nodes, strategy).node)
    /\ strategy = heuristic
    /\ nodes' = Pop(nodes, strategy).rest
    /\ pc' = "exit"
    /\ UNCHANGED <<startingWord, sentenceSpec, graph, argv, strategyArg,
                   strategy, loaded, nexts, bestSentence, totalNodes, outputs>>
    /\ removed' = Append(removed, Removed(Pop(nodes, strategy).node, "pruned"))

\* lines 90-104: the removed node is worse than the best, heuristic stops
PruneBreak ==
    /\ pc = "loop" /\ nodes # <<>> /\ totalNodes < MaxTotalNodes
    /\ IsPruned(bestSentence, Pop(nodes, strategy).node)
    /\ strategy = heuristic
    /\ nodes' = Pop(nodes, strategy).rest
    /\ totalNodes' = totalNodes + 1
    /\ pc' = "exit"
    /\ UNCHANGED <<startingWord, sentenceSpec, graph, argv, strategyArg,
                   strategy, loaded, nexts, bestSentence, outputs>>
    /\ removed' = Append(removed, Removed(Pop(nodes, strategy).node, "pruned"))

\* the loop is left on the skipped node under every strategy
PruneContinue_Break ==
    /\ pc = "loop" /\ nodes # <<>> /\ totalNodes < MaxTotalNodes
    /\ IsPruned(bestSentence, Pop(nodes, strategy).node)
    /\ strategy # heuristic
    /\ nodes' = Pop(nodes, strategy).rest
    /\ totalNodes' = totalNodes + 1
    /\ pc' = "exit"
    /\ UNCHANGED <<startingWord, sentenceSpec, graph, argv, strategyArg,
                   strategy, loaded, nexts, bestSentence, outputs>>
    /\ removed' = Append(removed, Removed(Pop(nodes, strategy).node, "pruned"))

\* lines 90-106: the removed node is worse than the best and is skipped
PruneContinue ==
    /\ pc = "loop" /\ nodes # <<>> /\ totalNodes < MaxTotalNodes
    /\ IsPruned(bestSentence, Pop(nodes, strategy).node)
    /\ strategy # heuristic
    /\ nodes' = Pop(nodes, strategy).rest
    /\ totalNodes' = totalNodes + 1
    /\ UNCHANGED <<startingWord, sentenceSpec, graph, argv, strategyArg,
                   strategy, loaded, nexts, bestSentence, pc, outputs>>
    /\ removed' = Append(removed, Removed(Pop(nodes, strategy).node, "pruned"))

\* the KeyError of line 74 is not caught and ends the call
Expand_NoCatch ==
    /\ pc = "loop" /\ nodes # <<>> /\ totalNodes < MaxTotalNodes
    /\ LET node == Pop(nodes, strategy).node
       IN  /\ ~IsPruned(bestSentence, node)
           /\ node.depth < Len(sentenceSpec)
           /\ nodes' = Insert(Pop(nodes, strategy).rest, strategy,
                              GenerateNextNodes(nexts, sentenceSpec, node))
           /\ IF KeyError(nexts, sentenceSpec, node)
              THEN /\ pc' = "raised"
                   /\ outputs' = Append(outputs,
                                        Output("raised", strategy, None, 0))
              ELSE UNCHANGED <<pc, outputs>>
    /\ totalNodes' = totalNodes + 1
    /\ UNCHANGED <<startingWord, sentenceSpec, graph, argv, strategyArg,
                   strategy, loaded, nexts, bestSentence>>
    /\ removed' = Append(removed, Removed(Pop(nodes, strategy).node, "expanded"))

\* lines 90-113: the removed node is expanded
Expand ==
    /\ pc = "loop" /\ nodes # <<>> /\ totalNodes < MaxTotalNodes
    /\ LET node == Pop(nodes, strategy).node
       IN  /\ ~IsPruned(bestSentence, node)
           /\ node.depth < Len(sentenceSpec)
           /\ nodes' = Insert(Pop(nodes, strategy).rest, strategy,
                              GenerateNextNodes(nexts, sentenceSpec, node))
    /\ totalNodes' = totalNodes + 1
    /\ UNCHANGED <<startingWord, sentenceSpec, graph, argv, strategyArg,
                   strategy, loaded, nexts, bestSentence, pc, outputs>>
    /\ removed' = Append(removed, Removed(Pop(nodes, strategy).node, "expanded"))

\* lines 90-115: the removed node is a complete chain
Candidate ==
    /\ pc = "loop" /\ nodes # <<>> /\ totalNodes < MaxTotalNodes
    /\ LET node == Pop(nodes, strategy).node
       IN  /\ ~IsPruned(bestSentence, node)
           /\ ~(node.depth < Len(sentenceSpec))
           /\ bestSentence' = IF IsAccepted(bestSentence, node)
                              THEN node.sentence ELSE bestSentence
    /\ nodes' = Pop(nodes, strategy).rest
    /\ totalNodes' = totalNodes + 1
    /\ UNCHANGED <<startingWord, sentenceSpec, graph, argv, strategyArg,
                   strategy, loaded, nexts, pc, outputs>>
    /\ removed' = Append(removed, Removed(Pop(nodes, strategy).node, "candidate"))

\* line 90: the frontier is empty
LoopEnd ==
    /\ pc = "loop" /\ nodes = <<>>
    /\ pc' = "exit"
    /\ UNCHANGED <<startingWord, sentenceSpec, graph, argv, strategyArg,
                   strategy, loaded, nexts, bestSentence, totalNodes, nodes,
                   outputs>>
    /\ UNCHANGED removed

\* lines 116-117: the result string is built
Return ==
    /\ pc = "exit" /\ bestSentence # None
    /\ outputs' = Append(outputs,
                         Output("result", strategy, bestSentence, totalNodes))
    /\ pc' = "returned"
    /\ UNCHANGED <<startingWord, sentenceSpec, graph, argv, strategyArg,
                   strategy, loaded, nexts, bestSentence, totalNodes, nodes>>
    /\ UNCHANGED removed

\* line 116: bestSentence is None and has no attribute string
ReturnRaise ==
    /\ pc = "exit" /\ bestSentence = None
    /\ outputs' = Append(outputs, Output("raised", strategy, None, totalNodes))
    /\ pc' = "raised"
    /\ UNCHANGED <<startingWord, sentenceSpec, graph, argv, strategyArg,
                   strategy, loaded, nexts, bestSentence, totalNodes, nodes>>
    /\ UNCHANGED removed

\* the driver is run on the same query with the next strategy argument
NextRun ==
    /\ pc \in {"returned", "raised"} /\ argv # <<>>
    /\ strategyArg' = Head(argv)
    /\ argv' = Tail(argv)
    /\ strategy' = <<>>
    /\ loaded' = FALSE
    /\ nexts' = <<>>
    /\ bestSentence' = None
    /\ totalNodes' = 0
    /\ nodes' = <<>>
    /\ pc' = "call"
    /\ UNCHANGED <<startingWord, sentenceSpec, graph, outputs>>
    /\ removed' = <<>>

----------------------------------------------------------------------------
(* Inputs *)

a == <<"a">>
b == <<"b">>
c == <<"c">>
X == <<"X">>
Y == <<"Y">>

\* one record line: seven fields separated by '/'
Rec(w1, c1, w2, c2, p) ==
    w1 \o <<"/">> \o c1 \o <<"/", "0", "/">> \o w2 \o <<"/">> \o c2
       \o <<"/", "1", "/">> \o p

P00 == <<"0", ".", "0">>
P05 == <<"0", ".", "5">>
P10 == <<"1", ".", "0">>

\* well-formed record lines
GoodLines == { Rec(a, X, b, X, P10),
               Rec(a, X, c, X, P05),
               Rec(b, X, c, X, P10),
               Rec(c, X, b, X, P10),
               Rec(a, X, a, X, P10),
               Rec(a, X, b, Y, P05),
               Rec(a, X, c, X, P00) }

\* lines with six fields, with eight fields, with a non-numeric probability
ShortLine   == <<"a", "/", "X", "/", "0", "/", "b", "/", "X", "/", "1">>
LongLine    == Rec(a, X, b, X, P10) \o <<"/", "x">>
NoFloatLine == Rec(a, X, b, X, <<"x">>)
OneField    == <<" ">>

BadLines == {ShortLine, LongLine, NoFloatLine, OneField}

RECURSIVE JoinLines(_)
JoinLines(lines) ==
    IF lines = <<>> THEN <<>>
    ELSE IF Len(lines) = 1 THEN lines[1]
    ELSE lines[1] \o <<"\n">> \o JoinLines(Tail(lines))

SeqsUpTo(S, n) == UNION {[1..k -> S] : k \in 0..n}

GoodTexts == {JoinLines(ls) : ls \in SeqsUpTo(GoodLines, MaxLines)}

\* empty lines among records; one irregular line, alone or among records
ArgTexts ==
    {JoinLines(ls) : ls \in SeqsUpTo({Rec(a, X, b, X, P10), <<>>}, 3)}
    \cup {JoinLines(pre \o <<l>> \o post) :
             pre \in SeqsUpTo({Rec(a, X, b, X, P10)}, 1),
             l \in BadLines,
             post \in SeqsUpTo({Rec(a, X, c, X, P05)}, 1)}

\* the records all start from category X
SentenceSpecs == {<<X>> \o s : s \in SeqsUpTo({X, Y}, MaxLen - 1)}

StartWords == {a, c}

ToUpper(s) ==
    [i \in 1..Len(s) |->
        IF \E k \in 1..Len(LowerCase) : LowerCase[k] = s[i]
        THEN UpperCase[CHOOSE k \in 1..Len(LowerCase) : LowerCase[k] = s[i]]
        ELSE s[i]]

Capitalize(s) == <<ToUpper(s)[1]>> \o Tail(s)

StrategyArgs ==
    ValidStrategies
    \cup {ToUpper(s) : s \in ValidStrategies}
    \cup {Capitalize(s) : s \in ValidStrategies}
    \cup { <<>>, <<"b", "o", "g", "u", "s">>,
           <<"h", "e", "u", "r", "i", "s", "t", "i", "c", " ">>,
           <<"d", "e", "p", "t", "h", "f", "i", "r", "s", "t">> }

\* the process has started and has called nothing yet
Init ==
    /\ startingWord = <<>>
    /\ sentenceSpec = <<>>
    /\ graph = <<>>
    /\ strategyArg = <<>>
    /\ argv = <<>>
    /\ strategy = <<>>
    /\ loaded = FALSE
    /\ nexts = <<>>
    /\ bestSentence = None
    /\ totalNodes = 0
    /\ nodes = <<>>
    /\ pc = "main"
    /\ outputs = <<>>
    /\ removed = <<>>

\* the driver reads a well-formed text and puts one query to the three
\* strategies in turn
MainSearch ==
    /\ pc = "main"
    /\ startingWord' = a
    /\ sentenceSpec' \in SentenceSpecs
    /\ graph' \in GoodTexts
    /\ strategyArg' = breadth_first
    /\ argv' = <<depth_first, heuristic>>
    /\ pc' = "call"
    /\ UNCHANGED <<strategy, loaded, nexts, bestSentence, totalNodes, nodes,
                   outputs, removed>>

\* the driver reads a text that may hold an irregular line and puts one
\* query under one strategy argument
MainArgs ==
    /\ pc = "main"
    /\ startingWord' \in StartWords
    /\ sentenceSpec' \in {<<X>>, <<X, X>>}
    /\ graph' \in ArgTexts
    /\ strategyArg' \in StrategyArgs
    /\ argv' = <<>>
    /\ pc' = "call"
    /\ UNCHANGED <<strategy, loaded, nexts, bestSentence, totalNodes, nodes,
                   outputs, removed>>

Next ==
    \/ MainSearch
    \/ MainArgs
    \/ GenerateInvalid
    \/ GenerateRaise
    \/ GenerateStart
    \/ PruneBreak
    \/ PruneContinue
    \/ Expand
    \/ Candidate
    \/ LoopEnd
    \/ Return
    \/ ReturnRaise
    \/ NextRun

Spec == Init /\ [][Next]_vars

\* tables with a self-loop and with a cycle between two words
LoopTexts ==
    {JoinLines(ls) :
        ls \in SeqsUpTo({Rec(a, X, a, X, P10), Rec(a, X, c, X, P05),
                         Rec(c, X, b, X, P10), Rec(b, X, c, X, P10)}, 2)}

\* the driver puts a query over such a table to the three strategies in
\* turn, or makes one call that does not reach the loop
MainLoop ==
    /\ pc = "main"
    /\ startingWord' \in StartWords
    /\ sentenceSpec' \in {s \in SentenceSpecs : \A i \in 1..Len(s) : s[i] = X}
    /\ \/ /\ graph' \in LoopTexts
          /\ strategyArg' = breadth_first
          /\ argv' = <<depth_first, heuristic>>
       \/ /\ graph' = ShortLine
          /\ strategyArg' \in {heuristic, <<"b", "o", "g", "u", "s">>}
          /\ argv' = <<>>
    /\ pc' = "call"
    /\ UNCHANGED <<strategy, loaded, nexts, bestSentence, totalNodes, nodes,
                   outputs, removed>>

\* one iteration of the while loop, or its exit
LoopStep ==
    \/ PruneBreak
    \/ PruneContinue
    \/ Expand
    \/ Candidate
    \/ LoopEnd

NextLoop ==
    \/ MainLoop
    \/ GenerateInvalid
    \/ GenerateRaise
    \/ GenerateStart
    \/ LoopStep
    \/ Return
    \/ ReturnRaise
    \/ NextRun

\* the interpreter runs the loop on: an iteration that can be taken is taken
FairSpec == Init /\ [][NextLoop]_vars /\ WF_vars(LoopStep)

----------------------------------------------------------------------------
(* The search tree of a query, enumerated without a frontier *)

\* the transitions the table holds for the word at this depth
Transitions(tbl, spec, word, depth) ==
    IF /\ word \in DOMAIN tbl
       /\ spec[depth] \in DOMAIN tbl[word]
       /\ spec[depth + 1] \in DOMAIN tbl[word][spec[depth]]
    THEN tbl[word][spec[depth]][spec[depth + 1]]
    ELSE <<>>

\* the complete chains below a node, each with its cumulative probability
RECURSIVE ChainsFrom(_, _, _, _, _, _)
ChainsFrom(tbl, spec, word, depth, string, percent) ==
    IF depth = Len(spec) THEN {[string |-> string, percent |-> percent]}
    ELSE LET ts == Transitions(tbl, spec, word, depth)
         IN  UNION {ChainsFrom(tbl, spec, ts[i].word, depth + 1,
                               string \o <<" ">> \o ts[i].word,
                               (percent * ts[i].percent) \div 2) :
                    i \in 1..Len(ts)}

\* the number of nodes of the subtree below a node, the node included
RECURSIVE TreeSize(_, _, _, _)
RECURSIVE TreeSizeSum(_, _, _, _, _)
TreeSize(tbl, spec, word, depth) ==
    IF depth = Len(spec) THEN 1
    ELSE 1 + TreeSizeSum(tbl, spec, Transitions(tbl, spec, word, depth),
                         depth + 1, 1)
TreeSizeSum(tbl, spec, ts, depth, i) ==
    IF i > Len(ts) THEN 0
    ELSE TreeSize(tbl, spec, ts[i].word, depth)
         + TreeSizeSum(tbl, spec, ts, depth, i + 1)

\* the complete chains of the query of the current call
AllChains == ChainsFrom(nexts, sentenceSpec, startingWord, 1, startingWord, One)

MaxChainPercent ==
    CHOOSE p \in {ch.percent : ch \in AllChains} :
        \A ch \in AllChains : ch.percent <= p

LastOutput == outputs[Len(outputs)]

\* the current call has loaded its table and has ended
CallEnded == loaded /\ pc \in {"returned", "raised"}

----------------------------------------------------------------------------
(* Claims *)

\* C1: with strategy heuristic, whenever the query has a complete chain,
\* generate returns a complete chain whose cumulative probability is the
\* largest over all complete chains of the query.
C1_HeuristicOptimal ==
    (CallEnded /\ strategy = heuristic /\ AllChains # {}) =>
        /\ pc = "returned"
        /\ LastOutput.kind = "result"
        /\ [string |-> LastOutput.string, percent |-> LastOutput.percent]
               \in AllChains
        /\ LastOutput.percent = MaxChainPercent

\* heuristic has returned after stopping early above a chain of three
\* words, the frontier still holding nodes
C1_Witness ==
    /\ pc = "returned" /\ strategy = heuristic
    /\ Len(sentenceSpec) = 3
    /\ nodes # <<>>
    /\ LastOutput.percent = MaxChainPercent
    /\ Cardinality({ch.percent : ch \in AllChains}) > 1

\* C2: with strategy breadth_first or depth_first, whenever the query has a
\* complete chain, the probability generate returns is the largest over
\* all complete chains of the query.
C2_ExhaustiveOptimal ==
    (CallEnded /\ strategy \in {breadth_first, depth_first} /\ AllChains # {}) =>
        /\ pc = "returned"
        /\ LastOutput.kind = "result"
        /\ LastOutput.percent = MaxChainPercent

\* breadth_first or depth_first has returned the optimum after skipping at
\* least one removed node
C2_Witness ==
    /\ pc = "returned" /\ strategy \in {breadth_first, depth_first}
    /\ LastOutput.percent = MaxChainPercent
    /\ \E i \in 1..Len(removed) : removed[i].outcome = "pruned"

Range(s) == {s[i] : i \in 1..Len(s)}

\* C3: once a best exists, a removed node whose cumulative probability is
\* strictly below the best's is not expanded (the frontier only loses that
\* node) and does not replace the best; with heuristic the loop ends there.
C3_PrunedNeverExpanded ==
    [][ ( /\ pc = "loop" /\ nodes # <<>>
          /\ bestSentence # None
          /\ Pop(nodes, strategy).node.sentence.percent < bestSentence.percent )
        => ( /\ bestSentence' = bestSentence
             /\ Len(nodes') = Len(nodes) - 1
             /\ Range(nodes') \subseteq Range(nodes)
             /\ (strategy = heuristic => pc' = "exit") ) ]_vars

\* the loop has skipped a node for which the table holds transitions, and
\* has ended
C3_Witness ==
    /\ pc = "exit"
    /\ \E i \in 1..Len(removed) :
          /\ removed[i].outcome = "pruned"
          /\ removed[i].node.depth < Len(sentenceSpec)
          /\ Transitions(nexts, sentenceSpec, removed[i].node.word,
                         removed[i].node.depth) # <<>>

\* the argument spells the name, each letter in either case
IsCaseVariant(s, name) ==
    /\ Len(s) = Len(name)
    /\ \A i \in 1..Len(s) : s[i] = name[i] \/ s[i] = ToUpper(<<name[i]>>)[1]

HasLine(text, line) ==
    \E i \in 1..(Len(text) - Len(line) + 1) :
        /\ SubSeq(text, i, i + Len(line) - 1) = line
        /\ i = 1 \/ text[i - 1] = "\n"
        /\ i + Len(line) - 1 = Len(text) \/ text[i + Len(line)] = "\n"

\* C4: a strategy argument that is not a case variant of one of the three
\* names makes generate return 'invalid strategy' with the text not parsed,
\* no table and no node removed; every case variant of a valid name runs
\* the search under that name.
C4_InvalidStrategy ==
    pc \notin {"main", "call"} =>
        IF \E name \in ValidStrategies : IsCaseVariant(strategyArg, name)
        THEN /\ IsCaseVariant(strategyArg, strategy)
             /\ IF pc \in {"loop", "exit"} THEN loaded
                ELSE /\ LastOutput.kind \in {"result", "raised"}
                     /\ loaded \/ pc = "raised"
        ELSE /\ pc = "returned"
             /\ LastOutput.kind = "invalid strategy"
             /\ ~loaded /\ nexts = <<>>
             /\ nodes = <<>> /\ totalNodes = 0 /\ removed = <<>>

\* 'invalid strategy' was returned on a text that holds a six-field line
C4_Witness ==
    /\ pc = "returned"
    /\ LastOutput.kind = "invalid strategy"
    /\ strategyArg # <<>>
    /\ HasLine(graph, ShortLine)

\* C5: when the loop has ended, the best is None exactly when the query
\* has no complete chain; generate then raises instead of returning, and
\* with a complete chain it returns and does not raise.
C5_NoChainRaises ==
    (loaded /\ pc \in {"exit", "returned", "raised"}) =>
        /\ (bestSentence = None) <=> (AllChains = {})
        /\ pc = "returned" => AllChains # {} /\ LastOutput.kind = "result"
        /\ pc = "raised" => AllChains = {} /\ LastOutput.kind = "raised"

\* a search that expanded nodes below the seed found no complete chain and
\* ended in the fault
C5_Witness ==
    /\ pc = "raised" /\ loaded
    /\ bestSentence = None
    /\ totalNodes > 2
    /\ AllChains = {}

\* C6: with breadth_first the node count is the number of nodes of the
\* search tree of the query, skipped nodes included.
C6_BreadthFirstCount ==
    (loaded /\ strategy = breadth_first /\ pc \in {"exit", "returned", "raised"}) =>
        /\ totalNodes = TreeSize(nexts, sentenceSpec, startingWord, 1)
        /\ pc = "returned" => LastOutput.totalNodes = totalNodes

\* breadth_first has returned its count after skipping a node, over a tree
\* of three levels
C6_Witness ==
    /\ pc = "returned" /\ strategy = breadth_first
    /\ Len(sentenceSpec) = 3
    /\ \E i \in 1..Len(removed) : removed[i].outcome = "pruned"
    /\ LastOutput.totalNodes > 4

\* exactly one complete chain has the largest cumulative probability
UniqueBest ==
    Cardinality({ch \in AllChains : ch.percent = MaxChainPercent}) = 1

C8_BestOnlyImproves ==
    [][ /\ bestSentence' # None => bestSentence'.length = Len(sentenceSpec')
        /\ (pc \in {"loop", "exit"} /\ bestSentence' # bestSentence) =>
              /\ pc = "loop" /\ nodes # <<>>
              /\ [string |-> bestSentence'.string,
                  percent |-> bestSentence'.percent] \in AllChains
              /\ bestSentence' = Pop(nodes, strategy).node.sentence
              /\ Pop(nodes, strategy).node.depth = Len(sentenceSpec)
              /\ bestSentence = None
                    \/ bestSentence'.percent > bestSentence.percent ]_vars

\* a complete chain as probable as the best, and not the best, was removed
\* after the best was found and the best was kept
C8_Witness ==
    /\ pc = "exit"
    /\ \E i, j \in 1..Len(removed) :
          /\ i < j
          /\ removed[i].outcome = "candidate"
          /\ removed[j].outcome = "candidate"
          /\ removed[i].node.sentence = bestSentence
          /\ removed[j].node.sentence.percent = bestSentence.percent
          /\ removed[j].node.sentence.string # bestSentence.string

\* C9: the search loop, once entered, is left: the frontier empties or the
\* heuristic strategy stops.  No step of the loop waits on the cap.
C9_LoopTerminates ==
    /\ [](pc = "loop" /\ nodes # <<>> => totalNodes < MaxTotalNodes)
    /\ (pc = "loop") ~> (pc = "exit")

\* the loop has ended on a table with a self-loop, after going round it
C9_Witness ==
    /\ pc = "exit"
    /\ Len(sentenceSpec) = 3
    /\ \E i \in 1..Len(removed) :
          removed[i].node.sentence.string = <<"a", " ", "a", " ", "a">>

\* the positions at which a non-empty line of the text starts
LineStarts(text) ==
    {i \in 1..Len(text) : text[i] # "\n" /\ (i = 1 \/ text[i - 1] = "\n")}

\* the number of '/'-separated fields of the line that starts at i
Fields(text, i) ==
    LET j == CHOOSE k \in i..Len(text) :
                 /\ k = Len(text) \/ text[k + 1] = "\n"
                 /\ \A m \in i..k : text[m] # "\n"
    IN  1 + Cardinality({k \in i..j : text[k] = "/"})

\* the call has passed the strategy test, so the text was given to the loader
LoadTried == pc \notin {"main", "call"} /\ strategy \in ValidStrategies

LoadFailed ==
    /\ pc = "raised" /\ ~loaded /\ nexts = <<>>
    /\ LastOutput.kind = "raised"

\* C10 as stated: a non-empty line that does not split into exactly seven
\* fields makes the load fail.
C10_NotSevenRaises ==
    ( /\ LoadTried
      /\ \E i \in LineStarts(graph) : Fields(graph, i) # 7 )
    => LoadFailed

\* C10 amended: a non-empty line that splits into fewer than seven fields
\* makes the load fail: no table is produced and generate returns nothing.
C10_FewerThanSevenRaises ==
    ( /\ LoadTried
      /\ \E i \in LineStarts(graph) : Fields(graph, i) < 7 )
    => LoadFailed

\* the load failed on a six-field line that follows a well-formed record
C10_Witness ==
    /\ LoadTried /\ LoadFailed
    /\ graph = JoinLines(<<Rec(a, X, b, X, P10), ShortLine>>)

----------------------------------------------------------------------------
(* Claims on the transition table *)

Words == {a, b, c}
Categories == {X, Y}

\* the non-empty lines of the text, in file order
RecordLines(text) == SelectSeq(Split(text, "\n"), LAMBDA l : l # <<>>)

\* the non-empty lines of the text split into their fields, in file order
RECURSIVE FieldsOfLines(_)
FieldsOfLines(lines) ==
    IF lines = <<>> THEN <<>>
    ELSE <<Split(Head(lines), "/")>> \o FieldsOfLines(Tail(lines))

Records(text) == FieldsOfLines(RecordLines(text))

\* every non-empty line is a record: seven fields, the last one a number
WellFormed(recs) ==
    \A i \in 1..Len(recs) : Len(recs[i]) = 7 /\ IsFloat(recs[i][7])

\* the (destination word, probability) pairs of the records with this source
\* word, source category and destination category, in file order
RecordsOf(recs, w, c1, c2) ==
    LET sel == SelectSeq(recs, LAMBDA r : r[1] = w /\ r[2] = c1 /\ r[5] = c2)
    IN  [i \in 1..Len(sel) |-> NextInfo(sel[i][4], Float(sel[i][7]))]

\* nexts[w][c1][c2], the empty list where a key is absent
Lookup(tbl, w, c1, c2) ==
    IF w \in DOMAIN tbl
    THEN IF c1 \in DOMAIN tbl[w]
         THEN IF c2 \in DOMAIN tbl[w][c1] THEN tbl[w][c1][c2] ELSE <<>>
         ELSE <<>>
    ELSE <<>>

\* C11: for a text of well-formed records and empty lines the load does not
\* fail, and the list the table holds at [source word][source category]
\* [destination category] is the sequence of (destination word,
\* probability) pairs of the records with these three, in file order and
\* with duplicates kept; the table has no other keys.
C11_TableIsRecords ==
    /\ (pc = "raised" /\ ~loaded) => ~WellFormed(Records(graph))
    /\ (pc = "loop" /\ totalNodes = 0) =>
          LET recs == Records(graph)
          IN  WellFormed(recs) =>
                /\ DOMAIN nexts \subseteq Words
                /\ \A w \in DOMAIN nexts :
                      /\ DOMAIN nexts[w] \subseteq Categories
                      /\ \A c1 \in DOMAIN nexts[w] :
                            DOMAIN nexts[w][c1] \subseteq Categories
                /\ \A w \in Words, c1 \in Categories, c2 \in Categories :
                      Lookup(nexts, w, c1, c2) = RecordsOf(recs, w, c1, c2)

\* a text that holds one record twice, an empty line between the two, was
\* loaded: the list holds the pair twice
C11_Witness ==
    /\ pc = "loop" /\ totalNodes = 0
    /\ graph = JoinLines(<<Rec(a, X, b, X, P10), <<>>, Rec(a, X, b, X, P10)>>)
    /\ nexts[a][X][X] = <<NextInfo(b, 2), NextInfo(b, 2)>>

\* C12: in a loaded table every key leads to a transition: no word and no
\* source category maps to an empty mapping, and no (word, category,
\* target category) key maps to an empty list.
C12_NoEmptyEntry ==
    loaded =>
        \A w \in DOMAIN nexts :
            /\ DOMAIN nexts[w] # {}
            /\ \A c1 \in DOMAIN nexts[w] :
                  /\ DOMAIN nexts[w][c1] # {}
                  /\ \A c2 \in DOMAIN nexts[w][c1] : nexts[w][c1][c2] # <<>>

\* a table with two source words, one of them with two target categories,
\* was loaded
C12_Witness ==
    /\ loaded
    /\ Cardinality(DOMAIN nexts) = 2
    /\ a \in DOMAIN nexts
    /\ DOMAIN nexts[a][X] = {X, Y}

----------------------------------------------------------------------------
(* Claims on the frontier *)

\* the complete chains that extend a node, the node itself when complete
ChainsBelow(node) ==
    ChainsFrom(nexts, sentenceSpec, node.word, node.depth,
               node.sentence.string, node.sentence.percent)

\* the heuristic loop has been left on a removed node less probable than
\* the best
StoppedEarly ==
    /\ pc = "exit" /\ strategy = heuristic
    /\ removed # <<>> /\ bestSentence # None
    /\ removed[Len(removed)].node.sentence.percent < bestSentence.percent

\* C13: with heuristic, when the loop stops on a removed node that is less
\* probable than the best, every node left in the frontier is strictly less
\* probable than the best, and so is every complete chain that extends it.
C13_FrontierBelowBest ==
    StoppedEarly =>
        \A i \in 1..Len(nodes) :
            /\ nodes[i].sentence.percent < bestSentence.percent
            /\ \A ch \in ChainsBelow(nodes[i]) :
                  ch.percent < bestSentence.percent

\* the loop stopped early and left in the frontier a complete chain and a
\* node that is not complete
C13_Witness ==
    /\ StoppedEarly
    /\ \E i, j \in 1..Len(nodes) :
          /\ nodes[i].depth = Len(sentenceSpec)
          /\ nodes[i].sentence.percent > 0
          /\ nodes[j].depth < Len(sentenceSpec)

\* C14 as stated: with heuristic, every node of the frontier carries in its
\* first field the negation of its cumulative probability.
C14_PriorityIsNegation ==
    (pc = "loop" /\ strategy = heuristic) =>
        \A i \in 1..Len(nodes) :
            nodes[i].weighting = -nodes[i].sentence.percent

\* C14 amended: with heuristic, every node of the frontier other than the
\* seed carries in its first field the negation of its cumulative
\* probability; the seed, of cumulative probability 1.0, carries 0.0.
C14_ChildPriorityIsNegation ==
    (pc = "loop" /\ strategy = heuristic) =>
        \A i \in 1..Len(nodes) :
            IF nodes[i].depth = 1
            THEN /\ nodes[i].weighting = 0
                 /\ nodes[i].sentence.percent = One
            ELSE nodes[i].weighting = -nodes[i].sentence.percent

\* the heuristic frontier holds a node of two words and a node of three
\* words, of different cumulative probabilities above 0.0
C14_Witness ==
    /\ pc = "loop" /\ strategy = heuristic
    /\ \E i, j \in 1..Len(nodes) :
          /\ nodes[i].depth = 2 /\ nodes[j].depth = 3
          /\ nodes[i].sentence.percent > 0
          /\ nodes[i].sentence.percent < One
          /\ nodes[j].sentence.percent > 0
          /\ nodes[j].sentence.percent # nodes[i].sentence.percent

\* C15: with breadth_first or depth_first, removing a node that is strictly
\* less probable than the best takes that node out of the frontier and adds
\* one to the node count and changes nothing else: the best and the other
\* nodes of the frontier stay, and the loop goes on.
C15_SkipOnlyRemoves ==
    [][ ( /\ pc = "loop" /\ nodes # <<>>
          /\ bestSentence # None
          /\ \/ /\ strategy = breadth_first
                /\ nodes[1].sentence.percent < bestSentence.percent
             \/ /\ strategy = depth_first
                /\ nodes[Len(nodes)].sentence.percent < bestSentence.percent )
        => ( /\ nodes' = IF strategy = breadth_first THEN Tail(nodes)
                         ELSE SubSeq(nodes, 1, Len(nodes) - 1)
             /\ totalNodes' = totalNodes + 1
             /\ bestSentence' = bestSentence
             /\ pc' = "loop"
             /\ nexts' = nexts /\ strategy' = strategy
             /\ sentenceSpec' = sentenceSpec /\ startingWord' = startingWord
             /\ outputs' = outputs ) ]_vars

\* breadth_first or depth_first skipped a node that the frontier held with
\* other nodes, and went on to remove another node
C15_Witness ==
    /\ strategy \in {breadth_first, depth_first}
    /\ pc = "loop" /\ nodes # <<>>
    /\ \E i, j \in 1..Len(removed) :
          /\ i < j
          /\ removed[i].outcome = "pruned"
          /\ removed[j].outcome \in {"expanded", "candidate"}

\* the node the loop removes next
Removing == IF strategy = depth_first THEN nodes[Len(nodes)] ELSE nodes[1]

\* the frontier without the node the loop removes next
Remaining ==
    IF strategy = depth_first THEN SubSeq(nodes, 1, Len(nodes) - 1)
    ELSE Tail(nodes)

\* C16: when the node to expand has its word, its source category or its
\* target category absent from the table, the expansion puts no child in
\* the frontier and raises nothing: the frontier only loses the node, the
\* best stays and the loop goes on.
C16_AbsentKeyNoChildren ==
    [][ ( /\ pc = "loop" /\ nodes # <<>>
          /\ bestSentence = None
                \/ Removing.sentence.percent >= bestSentence.percent
          /\ Removing.depth < Len(sentenceSpec)
          /\ KeyError(nexts, sentenceSpec, Removing) )
        => ( /\ nodes' = Remaining
             /\ totalNodes' = totalNodes + 1
             /\ bestSentence' = bestSentence
             /\ pc' = "loop"
             /\ outputs' = outputs ) ]_vars

\* in one run the loop expanded a node whose word is not in the table and a
\* node whose word and source category are in the table without the target
\* category, and went on after each
C16_Witness ==
    /\ pc = "loop"
    /\ \E i, j \in 1..(Len(removed) - 1) :
          /\ removed[i].outcome = "expanded"
          /\ removed[i].node.word \notin DOMAIN nexts
          /\ removed[j].outcome = "expanded"
          /\ removed[j].node.word \in DOMAIN nexts
          /\ sentenceSpec[removed[j].node.depth]
                \in DOMAIN nexts[removed[j].node.word]
          /\ KeyError(nexts, sentenceSpec, removed[j].node)

\* the loop expanded a node whose word is in the table without the source
\* category
C16_SourceCategoryAbsent ==
    /\ pc = "loop"
    /\ \E i \in 1..(Len(removed) - 1) :
          /\ removed[i].outcome = "expanded"
          /\ removed[i].node.word \in DOMAIN nexts
          /\ sentenceSpec[removed[i].node.depth]
                \notin DOMAIN nexts[removed[i].node.word]

\* the words of the chain of a node
ChainWords(node) == Split(node.sentence.string, " ")

\* the table transitions from the word at position k of the chain to the
\* word at position k + 1
StepsAt(ws, k) ==
    {e \in Range(Lookup(nexts, ws[k], sentenceSpec[k], sentenceSpec[k + 1])) :
        e.word = ws[k + 1]}

\* the products of the probabilities of one table transition for each pair
\* of consecutive words from position k on, times acc
RECURSIVE PathProducts(_, _, _)
PathProducts(ws, k, acc) ==
    IF k >= Len(ws) THEN {acc}
    ELSE UNION {PathProducts(ws, k + 1, (acc * e.percent) \div 2) :
                   e \in StepsAt(ws, k)}

\* C17: every node of the frontier has a depth from 1 to the length of the
\* target sequence; its chain has that many words, the first the starting
\* word and the last the word of the node; its sentence length is its depth;
\* each pair of consecutive words is a table transition between the
\* categories of their positions; and its cumulative probability is the
\* product of the probabilities of such transitions, 1.0 for the seed.
C17_NodeIsChain ==
    pc \in {"loop", "exit"} =>
        \A i \in 1..Len(nodes) :
            LET n  == nodes[i]
                ws == ChainWords(n)
            IN  /\ 1 <= n.depth /\ n.depth <= Len(sentenceSpec)
                /\ Len(ws) = n.depth
                /\ ws[1] = startingWord
                /\ ws[Len(ws)] = n.word
                /\ n.sentence.length = n.depth
                /\ \A k \in 1..(Len(ws) - 1) : StepsAt(ws, k) # {}
                /\ n.sentence.percent \in PathProducts(ws, 1, One)
                /\ n.depth = 1 => n.sentence.percent = One

\* the frontier holds the chain "a c b" of two transitions, of
\* probabilities 0.5 and 1.0, with the cumulative probability 0.5
C17_Witness ==
    /\ pc = "loop"
    /\ \E i \in 1..Len(nodes) :
          /\ nodes[i].depth = 3
          /\ nodes[i].sentence.string = <<"a", " ", "c", " ", "b">>
          /\ nodes[i].sentence.percent = One \div 2
          /\ Lookup(nexts, a, X, X) = <<NextInfo(b, 2), NextInfo(c, 1)>>

\* line 101 for the node the loop removes next
Skipped ==
    bestSentence # None /\ Removing.sentence.percent < bestSentence.percent

\* C18: the node count is the number of nodes removed from the frontier, and
\* the count returned is that number.  Every iteration removes one node,
\* counts it once and gives it one outcome: pruned when it is strictly less
\* probable than the best (also when heuristic stops there), otherwise
\* expanded when it is not complete and candidate when it is.
C18_CountIsRemovals ==
    /\ [](pc \in {"loop", "exit"} => totalNodes = Len(removed))
    /\ []((pc = "returned" /\ LastOutput.kind = "result")
             => LastOutput.totalNodes = Len(removed))
    /\ [][ (pc = "loop" /\ nodes # <<>>) =>
             /\ totalNodes' = totalNodes + 1
             /\ removed' = Append(removed, removed'[Len(removed')])
             /\ LET r == removed'[Len(removed')]
                IN  /\ r.node = Removing
                    /\ r.outcome \in {"pruned", "expanded", "candidate"}
                    /\ r.outcome = "pruned" <=> Skipped
                    /\ r.outcome = "expanded" <=>
                          (~Skipped /\ Removing.depth < Len(sentenceSpec))
                    /\ r.outcome = "pruned" =>
                          bestSentence' = bestSentence /\ nodes' = Remaining
                    /\ r.outcome = "expanded" => bestSentence' = bestSentence
                    /\ r.outcome = "candidate" => nodes' = Remaining ]_vars

\* heuristic returned a count of nodes among which one was expanded, one
\* was a candidate and the last one stopped the search
C18_Witness ==
    /\ pc = "returned" /\ strategy = heuristic
    /\ LastOutput.totalNodes = Len(removed)
    /\ removed[Len(removed)].outcome = "pruned"
    /\ \E i, j \in 1..Len(removed) :
          /\ removed[i].outcome = "expanded"
          /\ removed[j].outcome = "candidate"

\* C19: on one query, the node counts of depth_first and of heuristic are
\* at most the node count of breadth_first, and no count is above the number
\* of nodes of the search tree of the query.
C19_CountAtMostBreadthFirst ==
    ( /\ Len(outputs) = 3
      /\ outputs[1].strategy = breadth_first
      /\ outputs[2].strategy = depth_first
      /\ outputs[3].strategy = heuristic ) =>
        /\ outputs[2].totalNodes <= outputs[1].totalNodes
        /\ outputs[3].totalNodes <= outputs[1].totalNodes
        /\ \A i \in 1..3 :
              outputs[i].totalNodes
                  <= TreeSize(nexts, sentenceSpec, startingWord, 1)

\* the three strategies returned three different counts, depth_first and
\* heuristic each below breadth_first
C19_Witness ==
    /\ Len(outputs) = 3
    /\ \A i \in 1..3 : outputs[i].kind = "result"
    /\ outputs[2].totalNodes < outputs[1].totalNodes
    /\ outputs[3].totalNodes < outputs[2].totalNodes

\* C20: for a target sequence of length 1, whatever the loaded table holds,
\* every valid strategy returns the starting word alone with probability
\* 1.0 and the node count 1.
C20_SingleCategory ==
    (CallEnded /\ Len(sentenceSpec) = 1) =>
        /\ pc = "returned"
        /\ LastOutput.kind = "result"
        /\ LastOutput.string = startingWord
        /\ LastOutput.percent = One
        /\ LastOutput.totalNodes = 1

\* a query of length 1 returned over a table that holds records and does
\* not hold the starting word
C20_Witness ==
    /\ pc = "returned" /\ loaded
    /\ Len(sentenceSpec) = 1
    /\ nexts # <<>>
    /\ startingWord \notin DOMAIN nexts
    /\ LastOutput.string = startingWord
    /\ LastOutput.totalNodes = 1

====
